---- MODULE Spec2Model ----
(***************************************************************************)
(* A model of the ls-rust directory lister (src/src/main.rs).              *)
(*                                                                         *)
(* main parses the arguments, calls entries::read_entries on the target    *)
(* path and hands the returned Vec<DirEntry> to list::list_dir, which      *)
(* prints one line per entry.                                              *)
(*                                                                         *)
(* Text is modelled as sequences of integers: a file name is the sequence  *)
(* of its bytes (an OsString on Unix), a str is the sequence of its        *)
(* Unicode scalar values.  Option<T> is modelled as a set with at most one *)
(* element: {} is None and {x} is Some(x).                                 *)
(***************************************************************************)
EXTENDS Integers, Sequences, FiniteSets, TLC

\* ------------------------------------------------------------------ bounds
\* Largest number of results the directory iterator yields.
MaxEntries == 2
\* Largest value given to --limit.
MaxLimit == 2
\* Largest value given to --max-depth.
MaxDepth == 2
\* Longest string handed to escape_string on its own.
MaxLen == 3

VARIABLES
    args,       \* the parsed Arguments
    listing,    \* what fs::read_dir yields for the path, in native order
    pc,         \* where main is
    opened,     \* Option<bool>: whether fs::read_dir succeeded
    collected,  \* the Vec as collected at line 127, before the depth loop
    entries,    \* the Vec<DirEntry> of read_entries, then of main
    i,          \* index of the removal loop of read_entries
    k,          \* number of entries list_dir has been through
    out,        \* stdout: the lines completed with println!()
    cur,        \* stdout: what is printed of the line not yet terminated
    err,        \* Option: the error main returns
    escIn,      \* argument of a stand-alone call of escape_string
    escOut      \* Option: its result

vars == <<args, listing, pc, opened, collected, entries, i, k, out, cur, err,
          escIn, escOut>>

\* ------------------------------------------------------------- file names
\* ".", "..": path segments, and the names the filter of read_entries
\* compares with; fs::read_dir skips the entries so named.
NameDot == <<46>>
NameDotDot == <<46, 46>>
\* "d": a directory of the target path.
NameD == <<100>>
\* ".g", "a", "e-acute" (two bytes of UTF-8), and "." followed by the byte
\* 0xFF, which is not valid UTF-8.
NameDotGit == <<46, 103>>
NameA == <<97>>
NameEAcute == <<195, 169>>
NameDotBad == <<46, 255>>

\* The names of the children of the listed directory.
FileNames == {NameDotGit, NameA, NameEAcute, NameDotBad}

RECURSIVE from_utf8(_)
\* OsStr::to_str: Some(the decoded text) when the bytes are valid UTF-8, None
\* otherwise.  One- and two-byte sequences are decoded; the model's names
\* hold no lead byte of a longer sequence.
from_utf8(b) ==
    IF b = <<>> THEN {<<>>}
    ELSE IF b[1] < 128
        THEN {<<b[1]>> \o r : r \in from_utf8(Tail(b))}
    ELSE IF b[1] \in 194..223 /\ Len(b) >= 2 /\ b[2] \in 128..191
        THEN {<<(b[1] - 192) * 64 + (b[2] - 128)>> \o r :
                  r \in from_utf8(SubSeq(b, 3, Len(b)))}
    ELSE {}

RECURSIVE to_string_lossy(_)
\* OsStr::to_string_lossy: as from_utf8, with U+FFFD for every invalid byte.
to_string_lossy(b) ==
    IF b = <<>> THEN <<>>
    ELSE IF b[1] < 128
        THEN <<b[1]>> \o to_string_lossy(Tail(b))
    ELSE IF b[1] \in 194..223 /\ Len(b) >= 2 /\ b[2] \in 128..191
        THEN <<(b[1] - 192) * 64 + (b[2] - 128)>>
                 \o to_string_lossy(SubSeq(b, 3, Len(b)))
    ELSE <<65533>> \o to_string_lossy(Tail(b))

starts_with_dot(s) == Len(s) >= 1 /\ s[1] = 46

\* ------------------------------------------------------------------ paths
\* A path is whether it starts at the root and its '/'-separated segments.
PathDot == [root |-> FALSE, segs |-> <<NameDot>>]
PathRootD == [root |-> TRUE, segs |-> <<NameD>>]
TargetPaths == {PathDot, PathRootD}

\* DirEntry::path: the listing path joined with the file name.
EntryPath(path, name) == [root |-> path.root, segs |-> Append(path.segs, name)]

RECURSIVE NormalSegs(_, _)
NormalSegs(segs, j) ==
    IF j > Len(segs) THEN <<>>
    ELSE (IF segs[j] = NameDot THEN <<>> ELSE <<segs[j]>>)
             \o NormalSegs(segs, j + 1)

\* Path::components: the root, then the segments; a "." segment is a
\* component only when it leads a relative path.
Components(p) ==
    IF p.root THEN <<<<47>>>> \o NormalSegs(p.segs, 1)
    ELSE IF p.segs = <<>> THEN <<>>
    ELSE <<p.segs[1]>> \o NormalSegs(p.segs, 2)

ComponentCount(p) == Len(Components(p))

\* ---------------------------------------------------------------- options
None == {}
Some(x) == {x}
Unwrap(o) == CHOOSE x \in o : TRUE

TimeSort == {"Atime", "Mtime", "Ctime"}

Arguments ==
    [show_hidden : BOOLEAN,
     show_almost_all : BOOLEAN,
     escape : BOOLEAN,
     time : {None} \cup {Some(t) : t \in TimeSort},
     classify : BOOLEAN,
     max_depth : {None} \cup {Some(n) : n \in 0..MaxDepth},
     limit : {None} \cup {Some(n) : n \in 0..MaxLimit},
     path : TargetPaths]

\* ---------------------------------------------------------- the directory
\* One item of the ReadDir iterator: io::Result<DirEntry>.
DirResults ==
    {[ok |-> TRUE, name |-> n] : n \in FileNames}
        \cup {[ok |-> FALSE, name |-> <<>>]}

\* The listings of a directory: its children have distinct names.
Listings ==
    {l \in UNION {[1..n -> DirResults] : n \in 0..MaxEntries} :
        \A a, b \in 1..Len(l) :
            (a < b /\ l[a].ok /\ l[b].ok) => l[a].name # l[b].name}

\* The file type the file system reports for a child.
FileTypeOf(name) ==
    CASE name = NameA -> "file"
      [] name = NameDotBad -> "symlink"
      [] name = NameDotGit -> "dir"
      [] OTHER -> "other"

\* ------------------------------------------------------------ read_entries
RECURSIVE FilterMapOk(_, _)
\* .filter_map(|res| res.ok()): the entries read without error, from
\* position j on; a DirEntry is its position in the listing and its name.
FilterMapOk(l, j) ==
    IF j > Len(l) THEN <<>>
    ELSE (IF l[j].ok THEN <<[idx |-> j, name |-> l[j].name]>> ELSE <<>>)
             \o FilterMapOk(l, j + 1)

\* Mutant of HiddenKeep: almost-all mode drops a name that is not valid
\* UTF-8 (unwrap_or(false) for unwrap_or(true)).
HiddenKeepDropsInvalid(show_almost_all, name) ==
    LET s == from_utf8(name) IN
    IF show_almost_all
        THEN IF s = {} THEN FALSE
             ELSE Unwrap(s) # NameDot /\ Unwrap(s) # NameDotDot
        ELSE ~(IF s = {} THEN FALSE ELSE starts_with_dot(Unwrap(s)))

\* The closure given to .filter at lines 111-125.
HiddenKeep(show_almost_all, name) ==
    LET s == from_utf8(name) IN
    IF show_almost_all
        THEN IF s = {} THEN TRUE
             ELSE Unwrap(s) # NameDot /\ Unwrap(s) # NameDotDot
        ELSE ~(IF s = {} THEN FALSE ELSE starts_with_dot(Unwrap(s)))

HiddenFilter(show_almost_all, s) ==
    SelectSeq(s, LAMBDA e : HiddenKeep(show_almost_all, e.name))

\* Mutant of Take: one entry too many.
TakeOneMore(s, limit) ==
    IF limit = None \/ Unwrap(limit) + 1 >= Len(s) THEN s
    ELSE SubSeq(s, 1, Unwrap(limit) + 1)

\* .take(limit.unwrap_or_else(|| usize::MAX)): usize::MAX is above the
\* length of any sequence.
Take(s, limit) ==
    IF limit = None \/ Unwrap(limit) >= Len(s) THEN s
    ELSE SubSeq(s, 1, Unwrap(limit))

\* Vec::remove(j).
Remove(s, j) == SubSeq(s, 1, j - 1) \o SubSeq(s, j + 1, Len(s))

\* fs::read_dir(path)? fails: read_entries returns the error, and so does
\* main.
ReadDirFail ==
    /\ pc = "read_dir"
    /\ opened' = Some(FALSE)
    /\ err' = Some("read_dir")
    /\ pc' = "exit"
    /\ UNCHANGED <<args, listing, collected, entries, i, k, out, cur, escIn, escOut>>

\* Mutant of ReadCollect: an entry that fails during the enumeration fails
\* read_entries (the results are collected with ? for filter_map(ok)).
ReadCollectStrict ==
    /\ pc = "read_dir"
    /\ opened' = Some(TRUE)
    /\ IF \E j \in 1..Len(listing) : ~listing[j].ok
          THEN /\ err' = Some("read_dir")
               /\ pc' = "exit"
               /\ UNCHANGED <<entries, collected, i>>
          ELSE /\ entries' = Take(HiddenFilter(args.show_almost_all,
                                               FilterMapOk(listing, 1)),
                                  args.limit)
               /\ collected' = entries'
               /\ i' = 0
               /\ pc' = "depth"
               /\ err' = err
    /\ UNCHANGED <<args, listing, k, out, cur, escIn, escOut>>

\* Mutant of ReadCollect: the collected entries are reversed.
ReadCollectReversed ==
    /\ pc = "read_dir"
    /\ opened' = Some(TRUE)
    /\ LET c == Take(HiddenFilter(args.show_almost_all,
                                  FilterMapOk(listing, 1)), args.limit) IN
       entries' = [n \in 1..Len(c) |-> c[Len(c) + 1 - n]]
    /\ collected' = entries'
    /\ i' = 0
    /\ pc' = "depth"
    /\ UNCHANGED <<args, listing, k, out, cur, err, escIn, escOut>>

\* Lines 109-127: the directory opens and the iterator chain is collected.
ReadCollect ==
    /\ pc = "read_dir"
    /\ opened' = Some(TRUE)
    /\ entries' = Take(HiddenFilter(args.show_almost_all,
                                    FilterMapOk(listing, 1)), args.limit)
    /\ collected' = entries'
    /\ i' = 0
    /\ pc' = "depth"
    /\ UNCHANGED <<args, listing, k, out, cur, err, escIn, escOut>>

\* Mutant of DepthStep: >= for >.
DepthStepInclusive ==
    /\ pc = "depth"
    /\ args.max_depth # None
    /\ i < Len(entries)
    /\ IF ComponentCount(EntryPath(args.path, entries[i + 1].name))
              >= Unwrap(args.max_depth)
          THEN /\ entries' = Remove(entries, i + 1)
               /\ i' = i
          ELSE /\ entries' = entries
               /\ i' = i + 1
    /\ UNCHANGED <<args, listing, pc, opened, collected, k, out, cur, err,
                   escIn, escOut>>

\* Mutant of DepthStep: the index advances after a removal too, so the
\* entry that moved into the freed slot is not looked at.
DepthStepSkip ==
    /\ pc = "depth"
    /\ args.max_depth # None
    /\ i < Len(entries)
    /\ IF ComponentCount(EntryPath(args.path, entries[i + 1].name))
              > Unwrap(args.max_depth)
          THEN entries' = Remove(entries, i + 1)
          ELSE entries' = entries
    /\ i' = i + 1
    /\ UNCHANGED <<args, listing, pc, opened, collected, k, out, cur, err,
                   escIn, escOut>>

\* Lines 131-138: one iteration of the removal loop.
DepthStep ==
    /\ pc = "depth"
    /\ args.max_depth # None
    /\ i < Len(entries)
    /\ IF ComponentCount(EntryPath(args.path, entries[i + 1].name))
              > Unwrap(args.max_depth)
          THEN /\ entries' = Remove(entries, i + 1)
               /\ i' = i
          ELSE /\ entries' = entries
               /\ i' = i + 1
    /\ UNCHANGED <<args, listing, pc, opened, collected, k, out, cur, err,
                   escIn, escOut>>

\* Line 141: Ok(entries), and main goes on to list_dir.
ReadReturn ==
    /\ pc = "depth"
    /\ args.max_depth = None \/ i >= Len(entries)
    /\ pc' = "list"
    /\ k' = 0
    /\ UNCHANGED <<args, listing, opened, collected, entries, i, out, cur, err,
                   escIn, escOut>>

\* ---------------------------------------------------------------- list_dir
RECURSIVE OctalDigits(_)
OctalDigits(n) ==
    IF n < 8 THEN <<48 + n>> ELSE OctalDigits(n \div 8) \o <<48 + (n % 8)>>

RECURSIVE ZeroPad(_, _)
ZeroPad(d, w) == IF Len(d) >= w THEN d ELSE ZeroPad(<<48>> \o d, w)

\* Mutant of EscapeChar: the octal digits are not padded ({:o} for {:03o}).
EscapeCharUnpadded(c) ==
    IF c \in 33..126 THEN <<c>>
    ELSE <<92>> \o OctalDigits(c % 256)

\* The body of the loop of escape_string; c as u8 keeps the low 8 bits.
EscapeChar(c) ==
    IF c \in 33..126 THEN <<c>>
    ELSE <<92>> \o ZeroPad(OctalDigits(c % 256), 3)

RECURSIVE escape_string(_)
escape_string(s) ==
    IF s = <<>> THEN <<>> ELSE EscapeChar(Head(s)) \o escape_string(Tail(s))

\* Lines 160-166: the last component of the entry's path, lossily decoded.
FileNameOf(e) ==
    LET c == Components(EntryPath(args.path, e.name)) IN
    to_string_lossy(c[Len(c)])

\* Lines 168-172.
PrintedName(e) ==
    IF args.escape THEN escape_string(FileNameOf(e)) ELSE FileNameOf(e)

\* Lines 175-180.
ClassifyChar(t) ==
    CASE t = "dir" -> 47
      [] t = "symlink" -> 64
      [] t = "file" -> 32
      [] OTHER -> 32

\* What is written for an entry: the name, the classify character, the
\* time field (two spaces and the formatted timestamp the key selects).
Blank == [name |-> <<>>, mark |-> <<>>, time |-> None]

Line(e) ==
    [name |-> PrintedName(e),
     mark |-> IF args.classify THEN <<ClassifyChar(FileTypeOf(e.name))>>
              ELSE <<>>,
     time |-> args.time]

\* One iteration of the loop of list_dir in which every fetch succeeds.
ListEntry ==
    /\ pc = "list"
    /\ k < Len(entries)
    /\ out' = Append(out, Line(entries[k + 1]))
    /\ k' = k + 1
    /\ UNCHANGED <<args, listing, pc, opened, collected, entries, i, cur, err,
                   escIn, escOut>>

\* Mutant of ListFailFileType: the entry is skipped and the loop goes on.
ListFailFileTypeSkip ==
    /\ pc = "list"
    /\ k < Len(entries)
    /\ args.classify
    /\ k' = k + 1
    /\ UNCHANGED <<args, listing, pc, opened, collected, entries, i, out, cur,
                   err, escIn, escOut>>

\* Line 175: entry.file_type()? fails after the name is printed.
ListFailFileType ==
    /\ pc = "list"
    /\ k < Len(entries)
    /\ args.classify
    /\ cur' = [Blank EXCEPT !.name = PrintedName(entries[k + 1])]
    /\ err' = Some("file_type")
    /\ pc' = "exit"
    /\ UNCHANGED <<args, listing, opened, collected, entries, i, k, out,
                   escIn, escOut>>

\* Lines 185-189: entry.metadata()? or a timestamp fetch fails after the
\* name and the classify character are printed.
ListFailMetadata ==
    /\ pc = "list"
    /\ k < Len(entries)
    /\ args.time # None
    /\ cur' = [Line(entries[k + 1]) EXCEPT !.time = None]
    /\ err' = Some("metadata")
    /\ pc' = "exit"
    /\ UNCHANGED <<args, listing, opened, collected, entries, i, k, out,
                   escIn, escOut>>

\* Line 202 and lines 224-226: Ok(()).
ListReturn ==
    /\ pc = "list"
    /\ k >= Len(entries)
    /\ pc' = "exit"
    /\ UNCHANGED <<args, listing, opened, collected, entries, i, k, out, cur,
                   err, escIn, escOut>>

\* -------------------------------------------------------------------- main
Init ==
    /\ args \in Arguments
    /\ listing \in Listings
    /\ pc = "read_dir"
    /\ opened = None
    /\ collected = <<>>
    /\ entries = <<>>
    /\ i = 0
    /\ k = 0
    /\ out = <<>>
    /\ cur = Blank
    /\ err = None
    /\ escIn = <<>>
    /\ escOut = None

Next ==
    \/ ReadDirFail
    \/ ReadCollect
    \/ DepthStep
    \/ ReadReturn
    \/ ListEntry
    \/ ListFailFileType
    \/ ListFailMetadata
    \/ ListReturn

Spec == Init /\ [][Next]_vars

\* ------------------------------------------- escape_string, called alone
\* The characters of the strings given to escape_string: a line feed, the
\* space, '!', 'a', '~', DEL, e-acute, U+0141 and U+FFFD.
EscapeChars == {10, 32, 33, 97, 126, 127, 233, 321, 65533}

EscapeInputs == UNION {[1..n -> EscapeChars] : n \in 0..MaxLen}

IdleArguments ==
    [show_hidden |-> FALSE, show_almost_all |-> FALSE, escape |-> TRUE,
     time |-> None, classify |-> FALSE, max_depth |-> None, limit |-> None,
     path |-> PathDot]

InitEscape ==
    /\ args = IdleArguments
    /\ listing = <<>>
    /\ pc = "escape"
    /\ opened = None
    /\ collected = <<>>
    /\ entries = <<>>
    /\ i = 0
    /\ k = 0
    /\ out = <<>>
    /\ cur = Blank
    /\ err = None
    /\ escIn \in EscapeInputs
    /\ escOut = None

EscapeCall ==
    /\ pc = "escape"
    /\ escOut = None
    /\ escOut' = Some(escape_string(escIn))
    /\ UNCHANGED <<args, listing, pc, opened, collected, entries, i, k, out,
                   cur, err, escIn>>

NextEscape == EscapeCall

SpecEscape == InitEscape /\ [][NextEscape]_vars

\* ================================================================= claims
\* read_entries has returned Ok to main.
ReadReturned == pc = "list" \/ (pc = "exit" /\ err # Some("read_dir"))

\* main has returned Ok.
ExitOk == pc = "exit" /\ err = None

\* The positions of the listing whose entry was read without error.
OkChildren == {j \in 1..Len(listing) : listing[j].ok}

\* The positions of the listing that the returned entries come from.
ReturnedIdx == {entries[n].idx : n \in 1..Len(entries)}

\* The entry's full path has at most n components.
WithinDepth(name, n) == ComponentCount(EntryPath(args.path, name)) <= n

\* The positions that survive the hidden filter, and how many of them lie at
\* or before position j.
Survivors ==
    {j \in OkChildren : HiddenKeep(args.show_almost_all, listing[j].name)}
Rank(j) == Cardinality({j2 \in Survivors : j2 <= j})

\* ---------------------------------------------------------------------- C1
\* C1 (as claimed): with show_hidden set and limit and max_depth absent,
\* every child of the directory that was read without error, the
\* dot-prefixed ones included, is returned by read_entries, and is rendered
\* when main returns Ok, whatever show_almost_all is.
C1_ShowHiddenFiltersNothing ==
    (args.show_hidden /\ args.limit = None /\ args.max_depth = None) =>
        /\ ReadReturned => ReturnedIdx = OkChildren
        /\ ExitOk => Len(out) = Cardinality(OkChildren)

\* ---------------------------------------------------------------------- C2
\* C2 (as claimed): with show_hidden and show_almost_all both false, no
\* entry whose name starts with '.' is returned by read_entries, and no
\* text written to stdout for an entry starts with '.'.
C2_DefaultHidesDotNames ==
    (~args.show_hidden /\ ~args.show_almost_all) =>
        /\ ReadReturned =>
               \A n \in 1..Len(entries) : ~starts_with_dot(entries[n].name)
        /\ \A n \in 1..Len(out) : ~starts_with_dot(out[n].name)
        /\ ~starts_with_dot(cur.name)

\* ---------------------------------------------------------------------- C3
\* C3: with show_almost_all set and limit and max_depth absent, the entries
\* read_entries returns hold no entry named "." or "..", and hold every
\* other child read without error: the other dot-prefixed names and the
\* names that are not valid UTF-8 too.
C3_AlmostAllKeepsAllButDots ==
    (args.show_almost_all /\ args.limit = None /\ args.max_depth = None
         /\ ReadReturned) =>
        /\ \A n \in 1..Len(entries) :
               entries[n].name \notin {NameDot, NameDotDot}
        /\ \A j \in OkChildren :
               listing[j].name \notin {NameDot, NameDotDot} =>
                   \E n \in 1..Len(entries) :
                       entries[n] = [idx |-> j, name |-> listing[j].name]

\* Almost-all mode has returned a dot-prefixed name and a name that is not
\* valid UTF-8.
C3_Witness ==
    /\ args.show_almost_all /\ args.limit = None /\ args.max_depth = None
    /\ ReadReturned
    /\ \E n, m \in 1..Len(entries) :
           entries[n].name = NameDotGit /\ entries[m].name = NameDotBad

C5_LimitBeforeDepth ==
    (args.limit # None /\ ReadReturned) =>
        LET N == Unwrap(args.limit) IN
        /\ ReturnedIdx =
               {j \in Survivors :
                    /\ Rank(j) <= N
                    /\ args.max_depth # None =>
                           WithinDepth(listing[j].name,
                                       Unwrap(args.max_depth))}
        /\ Cardinality(ReturnedIdx) = Len(entries)
        /\ Len(entries) <= N
        /\ Len(out) <= N

\* The limit has cut a survivor of the hidden filter off, and the depth
\* filter has then removed the only entry the limit let through.
C5_Witness ==
    /\ args.limit = Some(1)
    /\ Cardinality(Survivors) >= 2
    /\ args.max_depth # None
    /\ ReadReturned
    /\ Len(collected) = 1
    /\ entries = <<>>

\* ---------------------------------------------------------------------- C6
\* The removal loop has this many steps left at most.
LoopMeasure == 2 * Len(entries) - i

\* C6: with max_depth = N, when read_entries returns, its result is exactly
\* the entries of the truncated sequence whose full path has at most N
\* components, in unchanged order; and the removal loop finishes: each of
\* its iterations lowers a measure that is never negative.
C6_DepthFilterExact ==
    /\ [](args.max_depth # None /\ ReadReturned =>
              entries = SelectSeq(collected,
                            LAMBDA e : WithinDepth(e.name,
                                                   Unwrap(args.max_depth))))
    /\ [](pc = "depth" => LoopMeasure >= 0 /\ i <= Len(entries))
    /\ [][pc = "depth" /\ pc' = "depth" => LoopMeasure' < LoopMeasure]_vars

\* The loop has removed two adjacent entries, the last one included.
C6_Witness ==
    /\ args.max_depth # None
    /\ pc = "list"
    /\ Len(collected) = 2
    /\ entries = <<>>

\* ---------------------------------------------------------------------- C7
\* The three octal digits of a byte.
Octal3(b) == <<48 + (b \div 64), 48 + ((b \div 8) % 8), 48 + (b % 8)>>

RECURSIVE EscapedKeeping(_, _)
\* s with every character outside `kept` replaced by a backslash and the
\* three octal digits of its value as a byte.
EscapedKeeping(s, kept) ==
    IF s = <<>> THEN <<>>
    ELSE (IF Head(s) \in kept THEN <<Head(s)>>
          ELSE <<92>> \o Octal3(Head(s) % 256))
             \o EscapedKeeping(Tail(s), kept)

\* C7 (as claimed): escape_string leaves every printable ASCII character
\* (0x20 to 0x7E) unchanged and replaces every other character by a
\* backslash and the three octal digits of its byte value, in order.
C7_PrintableUnchanged ==
    escOut # None => Unwrap(escOut) = EscapedKeeping(escIn, 32..126)

\* C7 (amended): escape_string leaves every graphic ASCII character (0x21 to
\* 0x7E) unchanged and replaces every other character, the space included,
\* by a backslash and the three octal digits of the low 8 bits of its code
\* point, in order.
C7_GraphicUnchanged ==
    escOut # None => Unwrap(escOut) = EscapedKeeping(escIn, 33..126)

\* escape_string has returned for a string of a space, a graphic character
\* and a control character.
C7_Witness ==
    /\ escOut # None
    /\ escIn = <<32, 97, 10>>
    /\ Unwrap(escOut) = <<92, 48, 52, 48, 97, 92, 48, 49, 50>>

\* ---------------------------------------------------------------------- C8
\* C8: list_dir has written, at every point, exactly one complete line for
\* each of the k entries it has been through, in order, and nothing else:
\* when a fetch fails at the entry after them, those lines stay, the option
\* that asked for the fetch is set, no later entry is gone through and main
\* returns the error; when none fails, main returns Ok with one line per
\* entry and no unterminated text.
C8_FetchFailureHalts ==
    /\ Len(out) = k
    /\ k <= Len(entries)
    /\ \A n \in 1..Len(out) : out[n] = Line(entries[n])
    /\ err = Some("file_type") =>
           pc = "exit" /\ args.classify /\ k < Len(entries)
    /\ err = Some("metadata") =>
           pc = "exit" /\ args.time # None /\ k < Len(entries)
    /\ ExitOk => k = Len(entries) /\ cur = Blank

\* A metadata fetch has failed at the second entry, after the line of the
\* first was written.
C8_Witness ==
    /\ pc = "exit"
    /\ err = Some("metadata")
    /\ Len(out) = 1
    /\ Len(entries) = 2
    /\ cur # Blank

\* ---------------------------------------------------------------------- C9
\* C9: main returns the error of read_entries exactly when fs::read_dir
\* failed, and then nothing is written; when fs::read_dir succeeded, an
\* entry that failed during the enumeration is left out and the collected
\* entries are exactly the first survivors of the hidden filter, up to
\* limit.
C9_OnlyOpenFailureFails ==
    /\ err = Some("read_dir") <=> opened = Some(FALSE)
    /\ opened = Some(FALSE) => pc = "exit" /\ out = <<>> /\ cur = Blank
    /\ opened = Some(TRUE) =>
           /\ {collected[n].idx : n \in 1..Len(collected)} =
                  {j \in Survivors :
                       args.limit # None => Rank(j) <= Unwrap(args.limit)}
           /\ \A n \in 1..Len(collected) : listing[collected[n].idx].ok

\* main has returned Ok and written the line of a child that the listing
\* yields after an entry that failed.
C9_Witness ==
    /\ ExitOk
    /\ opened = Some(TRUE)
    /\ Len(listing) = 2
    /\ ~listing[1].ok
    /\ Len(out) = 1
    /\ entries[1].idx = 2

\* --------------------------------------------------------------------- C10
\* C10: with max_depth set, read_entries returns either the whole
\* truncated sequence or the empty sequence, and the empty sequence when
\* max_depth = 0.
C10_DepthAllOrNothing ==
    (args.max_depth # None /\ ReadReturned) =>
        /\ entries = collected \/ entries = <<>>
        /\ args.max_depth = Some(0) => entries = <<>>

\* With max_depth set, read_entries has returned the two entries of the
\* truncated sequence.
C10_Witness ==
    /\ args.max_depth # None
    /\ ReadReturned
    /\ Len(collected) = 2
    /\ entries = collected

====
